---- MODULE Spec2Model ----
(***************************************************************************)
(* Model of the face feature-extraction and matching engines of ClockInPro *)
(*   src/server/face_recognition_service.py  (FaceRecognitionService)      *)
(*   src/server/simple_face_recognition.py   (encode_face, compare_...)    *)
(*                                                                         *)
(* Floating point numbers are modelled in fixed point.  A float is a       *)
(* record [nan, v]: nan marks IEEE NaN (every ordered comparison with it   *)
(* is false), v is the value in integer units.  Units:                     *)
(*   signature elements of the multi-descriptor engine : 1                 *)
(*   distance components (euclidean, cosine, manhattan): 1/Scale           *)
(*   combined distance, tolerance                      : 1/(10*Scale)      *)
(*   percentages (capture confidence, confidence)      : 1/100 percent     *)
(*   unit-vector elements and distance, simple engine  : 1/Scale           *)
(*   elements of the average encoding                  : 1/Scale           *)
(* Square roots are floored to the unit.                                   *)
(* The face detector and the image decoder are external: their outputs are *)
(* drawn from bounded sets.  In Spec the descriptor extractors are taken   *)
(* as a whole and their concatenated output is drawn; SpecExtract computes *)
(* them on grayscale images, SpecMatcher runs one comparison after another.*)
(* The Gabor kernels of cv2.getGaborKernel enter by the sums of their       *)
(* coefficients, in millionths.                                            *)
(***************************************************************************)
EXTENDS Integers, Sequences, FiniteSets, TLC

VARIABLES
    tolerance,        \* self.tolerance of the service instance main constructs
    op,               \* operation in progress
    pc,               \* position inside the operation
    known_encoding,   \* argument of compare_faces_with_distance / compare_faces_simple
    calls,            \* detectMultiScale invocations made by the operation so far
    frontal_faces,    \* detect_and_align_face: frontal cascade output
    profile_faces,    \* detect_and_align_face: profile cascade output
    all_faces,        \* detect_and_align_face: frontal + profile
    largest_face,     \* detect_and_align_face: selected rectangle (x, y, w, h)
    crop,             \* detect_and_align_face: (x_pad, y_pad, w_pad, h_pad)
    capture_result,   \* value returned by generate_robust_encoding
    compared,         \* compare_faces_with_distance: the two arrays after line 221
    simple_tolerance, \* argument tolerance of compare_faces_simple
    faces,            \* encode_face: cascade output
    face,             \* encode_face: selected rectangle
    encoding,         \* encode_face: the encoding built
    image_count,      \* len(image_data_list) of generate_multiple_encodings
    processed,        \* history: what generate_robust_encoding returned for each image so far
    encodings_array,  \* generate_multiple_encodings: the encodings collected
    successful_encodings, \* generate_multiple_encodings: the counter
    gray_image,       \* the grayscale image handed to the descriptor extractors
    lbp_codes,        \* extract_lbp_features: the list of codes before the histogram
    lbp_features,     \* value returned by extract_lbp_features
    hog_features,     \* value returned by extract_hog_features
    gabor_features,   \* value returned by extract_gabor_features
    pca_features,     \* value returned by extract_pca_features
    result,           \* value returned by the operation
    previous          \* history: (distance, confidence) of the comparison before this one

vars == <<tolerance, op, pc, known_encoding, calls, frontal_faces, profile_faces,
          all_faces, largest_face, crop, capture_result, compared,
          simple_tolerance, faces, face, encoding, image_count, processed,
          encodings_array, successful_encodings, gray_image, lbp_codes, lbp_features,
          hog_features, gabor_features, pca_features, result, previous>>

args == <<tolerance, op, known_encoding, simple_tolerance, image_count, previous>>
detectVars == <<frontal_faces, profile_faces, all_faces, largest_face, crop>>
simpleVars == <<faces, face, encoding>>
multiVars == <<processed, encodings_array, successful_encodings>>
extractVars ==
    <<gray_image, lbp_codes, lbp_features, hog_features, gabor_features, pca_features>>

-----------------------------------------------------------------------------
(* Bounds of the model *)

MaxLen == 2        \* longest signature drawn
MaxFaces == 1      \* most rectangles one cascade invocation of detect_and_align_face returns
MaxSimpleFaces == 2 \* most rectangles one cascade invocation of encode_face returns
RoiLen == 2        \* number of pixels of the resized face region of encode_face
ImageW == 160      \* image.shape[1]
ImageH == 120      \* image.shape[0]
MaxSide == 4       \* largest height and width of the images drawn pixel by pixel

-----------------------------------------------------------------------------
(* Fixed-point floats *)

Scale == 1000

Num(n) == [nan |-> FALSE, v |-> n]
NaN == [nan |-> TRUE, v |-> 0]

\* IEEE ordered comparisons: false as soon as one side is NaN
FLe(a, b) == ~a.nan /\ ~b.nan /\ a.v <= b.v
FLt(a, b) == ~a.nan /\ ~b.nan /\ a.v < b.v
FGt(a, b) == ~a.nan /\ ~b.nan /\ a.v > b.v

\* Python's builtin min(a, b) and max(a, b): the first argument is kept
\* unless the second compares strictly smaller (larger)
PyMin(a, b) == IF FLt(b, a) THEN b ELSE a
PyMax(a, b) == IF FGt(b, a) THEN b ELSE a

Min(a, b) == IF b < a THEN b ELSE a
Max(a, b) == IF b > a THEN b ELSE a
Abs(n) == IF n < 0 THEN -n ELSE n

RECURSIVE ISqrtIn(_, _, _)
ISqrtIn(n, lo, hi) ==
    IF lo >= hi THEN lo
    ELSE LET mid == (lo + hi + 1) \div 2
         IN IF mid * mid <= n THEN ISqrtIn(n, mid, hi) ELSE ISqrtIn(n, lo, mid - 1)

\* floor of the square root (46340 is the largest root of a 32-bit integer)
ISqrt(n) == ISqrtIn(n, 0, Min(n, 46340))

RECURSIVE SumTo(_, _)
SumTo(f, n) == IF n = 0 THEN 0 ELSE f[n] + SumTo(f, n - 1)

\* np.sum over a one-dimensional array
Sum(s) == SumTo(s, Len(s))

\* np.dot(a, b) of two arrays of equal length
Dot(a, b) == Sum([i \in 1..Len(a) |-> a[i] * b[i]])

\* np.linalg.norm(a) squared
NormSq(a) == Dot(a, a)

\* a - b, elementwise
Diff(a, b) == [i \in 1..Len(a) |-> a[i] - b[i]]

-----------------------------------------------------------------------------
(* Inputs *)

\* signatures: stored encodings handed in by the caller, and the feature
\* vectors the descriptor extractors produce
Vals == 0..2
Encodings == UNION {[1..n -> Vals] : n \in 0..MaxLen}

\* capture-quality confidences around the two thresholds
Confidences == {5999, 6000, 8000, 8001}

Tolerances == {4000, 5000}

\* rectangles (x, y, w, h) a detector can report: inside the image, near or
\* away from each of its edges, square or not, two pairs of equal area
Candidates ==
    { <<10, 10, 40, 40>>, <<60, 30, 40, 40>>, <<10, 30, 100, 40>>, <<60, 30, 100, 40>>,
      <<30, 10, 100, 100>>, <<60, 10, 100, 100>> }

Rects == {r \in Candidates : r[1] + r[3] <= ImageW /\ r[2] + r[4] <= ImageH}

FaceLists(n) == UNION {[1..k -> Rects] : k \in 0..n}

-----------------------------------------------------------------------------
(* detect_and_align_face *)

DetectScale == 105
DetectNeighbors == 3
DetectMinSize == 30
MinPadding == 20
PaddingDivisor == 4

Call(cascade, scaleFactor, minNeighbors, minSize, found) ==
    [cascade |-> cascade, scaleFactor |-> scaleFactor, minNeighbors |-> minNeighbors,
     minSize |-> minSize, found |-> Len(found)]

Area(rect) == rect[3] * rect[4]

RECURSIVE MaxFrom(_, _, _)
MaxFrom(rects, i, best) ==
    IF i > Len(rects) THEN best
    ELSE MaxFrom(rects, i + 1, IF Area(rects[i]) > Area(best) THEN rects[i] ELSE best)

RECURSIVE MaxFrom_last(_, _, _)
MaxFrom_last(rects, i, best) ==
    IF i > Len(rects) THEN best
    ELSE MaxFrom_last(rects, i + 1, IF Area(rects[i]) >= Area(best) THEN rects[i] ELSE best)

LargestFace_last(rects) == MaxFrom_last(rects, 2, rects[1])

\* max(rects, key=lambda rect: rect[2] * rect[3]) on a non-empty list
LargestFace(rects) == MaxFrom(rects, 2, rects[1])

Padding(rect) == Max(MinPadding, Min(rect[3], rect[4]) \div PaddingDivisor)

PaddedCrop_unclamped(rect) ==
    LET padding == Padding(rect)
        x_pad == Max(0, rect[1] - padding)
        y_pad == Max(0, rect[2] - padding)
    IN <<x_pad, y_pad, rect[3] + 2 * padding, rect[4] + 2 * padding>>

PaddedCrop(rect) ==
    LET padding == Padding(rect)
        x_pad == Max(0, rect[1] - padding)
        y_pad == Max(0, rect[2] - padding)
        w_pad == Min(ImageW - x_pad, rect[3] + 2 * padding)
        h_pad == Min(ImageH - y_pad, rect[4] + 2 * padding)
    IN <<x_pad, y_pad, w_pad, h_pad>>

-----------------------------------------------------------------------------
(* generate_robust_encoding *)

MaxConfidence == 95

NoResult == [none |-> TRUE]

EncodeFailure(error) ==
    [success |-> FALSE, encoding |-> <<>>, confidence |-> Num(0),
     details |-> [error |-> error]]

EncodeSuccess(encodings, confidence) ==
    [success |-> TRUE, encoding |-> encodings, confidence |-> Num(confidence),
     details |-> [total_features |-> Len(encodings)]]

-----------------------------------------------------------------------------
(* compare_faces_with_distance *)

WeightEuclidean == 4
WeightCosine == 4
WeightManhattan == 2
HighQuality == 80
LowQuality == 60
LenientPct == 110
StrictPct == 90
MaxExpectedDistance == 1

\* euclidean_dist / np.sqrt(len(known_encoding)); 0/0 is NaN
EuclideanNorm(a, b) ==
    IF Len(a) = 0 THEN NaN
    ELSE Num(ISqrt((NormSq(Diff(a, b)) * Scale * Scale) \div Len(a)))

CosineDist_similarity(a, b) ==
    IF NormSq(a) * NormSq(b) = 0 THEN NaN
    ELSE LET d == Dot(a, b)
             q == ISqrt((d * d * Scale * Scale) \div (NormSq(a) * NormSq(b)))
         IN Num(IF d < 0 THEN -q ELSE q)

\* 1 - np.dot(a, b) / (norm(a) * norm(b)); the division 0/0 is NaN
CosineDist(a, b) ==
    IF NormSq(a) * NormSq(b) = 0 THEN NaN
    ELSE LET d == Dot(a, b)
             q == ISqrt((d * d * Scale * Scale) \div (NormSq(a) * NormSq(b)))
         IN Num(Scale - (IF d < 0 THEN -q ELSE q))

\* np.sum(np.abs(a - b)) / len(known_encoding); 0/0 is NaN
ManhattanNorm(a, b) ==
    IF Len(a) = 0 THEN NaN
    ELSE Num((Sum([i \in 1..Len(a) |-> Abs(a[i] - b[i])]) * Scale) \div Len(a))

CombinedDistance(e, c, m) ==
    IF e.nan \/ c.nan \/ m.nan THEN NaN
    ELSE Num(e.v * WeightEuclidean + c.v * WeightCosine + m.v * WeightManhattan)

AdaptiveTolerance_inclusive(base, confidence) ==
    IF ~FLt(confidence, Num(HighQuality * 100)) THEN (base * LenientPct) \div 100
    ELSE IF FLe(confidence, Num(LowQuality * 100)) THEN (base * StrictPct) \div 100
    ELSE base

AdaptiveTolerance(base, confidence) ==
    IF FGt(confidence, Num(HighQuality * 100)) THEN (base * LenientPct) \div 100
    ELSE IF FLt(confidence, Num(LowQuality * 100)) THEN (base * StrictPct) \div 100
    ELSE base

IsMatch_strict(distance, adaptive_tolerance) == FLt(distance, Num(adaptive_tolerance))

IsMatch(distance, adaptive_tolerance) == FLe(distance, Num(adaptive_tolerance))

ConfidencePct_unclamped(distance) ==
    LET raw == IF distance.nan THEN NaN
               ELSE Num(10 * Scale - distance.v \div MaxExpectedDistance)
    IN PyMin(Num(10 * Scale), raw)

\* max(0, min(100, (1.0 - combined_distance / max_expected_distance) * 100))
ConfidencePct(distance) ==
    LET raw == IF distance.nan THEN NaN
               ELSE Num(10 * Scale - distance.v \div MaxExpectedDistance)
    IN PyMax(Num(0), PyMin(Num(10 * Scale), raw))

\* a[:n]
Truncate(a, n) == SubSeq(a, 1, n)

CompareFailure_nearest(details) ==
    [match |-> FALSE, distance |-> Num(0), confidence |-> Num(0), details |-> details]

CompareFailure(details) ==
    [match |-> FALSE, distance |-> Num(10 * Scale), confidence |-> Num(0),
     details |-> details]

CompareResult(known, captured, base, capture_confidence) ==
    LET e == EuclideanNorm(known, captured)
        c == CosineDist(known, captured)
        m == ManhattanNorm(known, captured)
        d == CombinedDistance(e, c, m)
        t == AdaptiveTolerance(base, capture_confidence)
    IN [match |-> IsMatch(d, t), distance |-> d, confidence |-> ConfidencePct(d),
        details |-> [tolerance_used |-> t, euclidean |-> e, cosine |-> c,
                     manhattan |-> m, capture_confidence |-> capture_confidence]]

-----------------------------------------------------------------------------
(* The descriptor extractors *)

StandardSize == 128
LbpBins == 256
CellSize == 8
HogBins == 9
GaborThetas == 4
GaborFrequencies == 2
RegionSplit == 64

\* A grayscale image: every pixel has the value fill, except the pixel
\* (spot[1], spot[2]), of value spot[3], when spot is not empty
NoImage == [height |-> 0, width |-> 0, fill |-> 0, spot |-> <<>>]

Fills == {0, 128, 255}

Spots(h, w, fill) ==
    {<<>>} \cup {<<y, x, v>> : y \in 0..(h - 1), x \in 0..(w - 1), v \in Fills \ {fill}}

\* images of a few pixels, uniform or with one pixel apart
SmallImages ==
    UNION {UNION {UNION { {[height |-> h, width |-> w, fill |-> f, spot |-> sp] :
                              sp \in Spots(h, w, f)} :
                          f \in Fills} : w \in 2..MaxSide} : h \in 2..MaxSide}

\* uniform images of one or more cells, the standard 128 x 128 face among them
LargeShapes == {<<16, 16>>, <<17, 24>>, <<StandardSize, StandardSize>>}
LargeImages ==
    {[height |-> sh[1], width |-> sh[2], fill |-> f, spot |-> <<>>] :
        sh \in LargeShapes, f \in {0, 128}}

GrayImages == SmallImages \cup LargeImages

UniformImages == {img \in GrayImages : img.spot = <<>>}

\* gray_image[y, x]
Pixel(img, y, x) ==
    IF img.spot # <<>> /\ img.spot[1] = y /\ img.spot[2] = x THEN img.spot[3] ELSE img.fill

\* list(range(start, stop, step)) for a positive step
PyRange(start, stop, step) ==
    [i \in 1..(IF stop <= start THEN 0 ELSE (stop - start + step - 1) \div step) |->
        start + (i - 1) * step]

\* np.histogram(values, bins=bins, range=(0, bins))[0] of integer values
Histogram(values, bins) ==
    LET present == {values[k] : k \in 1..Len(values)}
    IN [b \in 1..bins |->
           IF b - 1 \in present
           THEN Cardinality({k \in 1..Len(values) : values[k] = b - 1}) ELSE 0]

LbpNeighbors ==
    << <<-1, -1>>, <<-1, 0>>, <<-1, 1>>, <<0, 1>>, <<1, 1>>, <<1, 0>>, <<1, -1>>, <<0, -1>> >>

LbpBit_strict(neighbor, center) == IF neighbor > center THEN 1 ELSE 0

\* '1' if neighbor >= center else '0'
LbpBit(neighbor, center) == IF neighbor >= center THEN 1 ELSE 0

\* int(binary_string, 2): the first neighbor is the most significant bit
LbpCode(img, y, x) ==
    Sum([k \in 1..8 |->
            LbpBit(Pixel(img, y + LbpNeighbors[k][1], x + LbpNeighbors[k][2]), Pixel(img, y, x))
               * 2 ^ (8 - k)])

\* the list lbp_features before the histogram: one code per interior pixel,
\* rows from top to bottom, each row from left to right
LbpCodes(img) ==
    LET ys == PyRange(1, img.height - 1, 1)
        xs == PyRange(1, img.width - 1, 1)
    IN [k \in 1..(Len(ys) * Len(xs)) |->
           LbpCode(img, ys[1 + (k - 1) \div Len(xs)], xs[1 + ((k - 1) % Len(xs))])]

\* the (y, x) origins of the cells in the order of the two loops
HogCells(img) ==
    LET ys == PyRange(0, img.height - CellSize, CellSize)
        xs == PyRange(0, img.width - CellSize, CellSize)
    IN [k \in 1..(Len(ys) * Len(xs)) |->
           <<ys[1 + (k - 1) \div Len(xs)], xs[1 + ((k - 1) % Len(xs))]>>]

\* the histogram of one cell, weighted by the gradient magnitudes: the images
\* with a cell are uniform, their gradients and so all the weights are 0
CellHistogram(img, cell) == [b \in 1..HogBins |-> 0]

ExtractHogFeatures(img) ==
    LET cells == HogCells(img)
    IN [j \in 1..(HogBins * Len(cells)) |->
           CellHistogram(img, cells[1 + (j - 1) \div HogBins])[1 + ((j - 1) % HogBins)]]

GaborLen == GaborThetas * GaborFrequencies * 2

\* the sum of the 21 x 21 coefficients of each kernel
\* cv2.getGaborKernel((21, 21), 5, radians(theta), 2*pi*frequency, 0.5, 0)
\* builds, in the order of the two loops (theta 0, 45, 90, 135; frequency
\* 0.1, 0.3 inside), in units of 1/KernelUnit
KernelUnit == Scale * Scale
GaborKernelSums ==
    <<1966286, -860543, 1266923, 191573, 1966286, -860543, 1266923, 191573>>

\* n / d rounded to the nearest integer, to the even one of two equally near
RoundHalfEven(n, d) ==
    LET q == n \div d
        r == n % d
    IN IF 2 * r > d \/ (2 * r = d /\ q % 2 = 1) THEN q + 1 ELSE q

\* conversion of a filter response to the 8-bit depth of the output
SaturateU8(n) == Max(0, Min(255, n))

\* a pixel of cv2.filter2D(gray_image, cv2.CV_8UC3, kernel) for the k-th kernel
\* and an image of one value: the reflected border leaves every neighbourhood
\* uniform, the response is the value times the sum of the coefficients
FilteredUniform(value, k) ==
    SaturateU8(RoundHalfEven(value * GaborKernelSums[k], KernelUnit))

\* extract_gabor_features of a uniform image: for each kernel the mean of the
\* filtered image, whose pixels are all equal, and its standard deviation, 0
ExtractGaborFeatures(img) ==
    CASE img.spot = <<>> ->
        [i \in 1..GaborLen |->
            IF i % 2 = 1 THEN FilteredUniform(img.fill, (i + 1) \div 2) ELSE 0]

\* the four regions of extract_pca_features as (y0, y1, x0, x1), ends excluded
Regions(img) ==
    << <<0, Min(RegionSplit, img.height), 0, Min(RegionSplit, img.width)>>,
       <<0, Min(RegionSplit, img.height), Min(RegionSplit, img.width), img.width>>,
       <<Min(RegionSplit, img.height), img.height, 0, Min(RegionSplit, img.width)>>,
       <<Min(RegionSplit, img.height), img.height, Min(RegionSplit, img.width), img.width>> >>

RegionSize(r) == (r[2] - r[1]) * (r[4] - r[3])

SpotIn(img, r) ==
    /\ img.spot # <<>>
    /\ r[1] <= img.spot[1] /\ img.spot[1] < r[2]
    /\ r[3] <= img.spot[2] /\ img.spot[2] < r[4]

\* [mean, std, max, min] of a region, floored to the unit
RegionStats(img, r) ==
    IF ~SpotIn(img, r) THEN <<img.fill, 0, img.fill, img.fill>>
    ELSE LET n == RegionSize(r)
             total == (n - 1) * img.fill + img.spot[3]
             squares == (n - 1) * img.fill * img.fill + img.spot[3] * img.spot[3]
         IN <<total \div n, ISqrt((n * squares - total * total) \div (n * n)),
              Max(img.fill, img.spot[3]), Min(img.fill, img.spot[3])>>

RECURSIVE StatsFrom(_, _)
\* the statistics of the regions from the k-th on, empty regions skipped
StatsFrom(img, k) ==
    IF k > 4 THEN <<>>
    ELSE (IF RegionSize(Regions(img)[k]) > 0 THEN RegionStats(img, Regions(img)[k]) ELSE <<>>)
            \o StatsFrom(img, k + 1)

ExtractPcaFeatures(img) == StatsFrom(img, 1)

-----------------------------------------------------------------------------
(* generate_multiple_encodings *)

ExcellentFrom == 3
GoodFrom == 2

\* longest image_data_list handed to generate_multiple_encodings: one image
\* more than the 'excellent' tag asks for
MaxImages == ExcellentFrom + 1

\* the encodings generate_robust_encoding produces for the images of one
\* list: the extractors give every image the same number of values
SampleEncodings ==
    {[i \in 1..MaxLen |-> IF i = 1 THEN 2 ELSE 0],
     [i \in 1..MaxLen |-> IF i = 1 THEN 0 ELSE 2]}

\* the two detectMultiScale invocations of detect_and_align_face, the frontal
\* cascade returning f rectangles and the profile cascade p
DetectorLog(f, p) ==
    << [cascade |-> "frontal", scaleFactor |-> DetectScale, minNeighbors |-> DetectNeighbors,
        minSize |-> DetectMinSize, found |-> f],
       [cascade |-> "profile", scaleFactor |-> DetectScale, minNeighbors |-> DetectNeighbors,
        minSize |-> DetectMinSize, found |-> p] >>

\* one call of generate_robust_encoding: the value it returns and the detector
\* invocations it makes.  An image that does not decode reaches no detector;
\* a decoded image is handed to both cascades, and the call succeeds when
\* one of them returns a rectangle
EncodeRuns ==
    {[result |-> EncodeFailure("decode"), calls |-> <<>>],
     [result |-> EncodeFailure("No face detected in image"), calls |-> DetectorLog(0, 0)]}
       \cup {[result |-> EncodeSuccess(e, Min(MaxConfidence * 100, c)),
               calls |-> DetectorLog(fp[1], fp[2])] :
                e \in SampleEncodings, c \in Confidences,
                fp \in {q \in (0..MaxFaces) \X (0..MaxFaces) : q[1] + q[2] > 0}}

MeanEncoding_attempts(arr) ==
    [i \in 1..Len(arr[1]) |->
        (Sum([k \in 1..Len(arr) |-> arr[k][i]]) * Scale) \div image_count]

\* np.mean(np.array(arr), axis=0) of a non-empty list of equally long encodings
MeanEncoding(arr) ==
    [i \in 1..Len(arr[1]) |->
        (Sum([k \in 1..Len(arr) |-> arr[k][i]]) * Scale) \div Len(arr)]

EncodingQuality_above(n) ==
    IF n > ExcellentFrom THEN "excellent" ELSE IF n > GoodFrom THEN "good" ELSE "acceptable"

EncodingQuality(n) ==
    IF n >= ExcellentFrom THEN "excellent" ELSE IF n >= GoodFrom THEN "good" ELSE "acceptable"

\* average_encoding None is the empty sequence: a mean is never empty
MultiFailure ==
    [success |-> FALSE, encodings |-> <<>>, average_encoding |-> <<>>,
     details |-> [error |-> "No successful encodings generated"]]

MultiSuccess(arr, attempts, successes) ==
    [success |-> TRUE, encodings |-> arr, average_encoding |-> MeanEncoding(arr),
     details |-> [total_attempts |-> attempts, successful_encodings |-> successes,
                  encoding_quality |-> EncodingQuality(successes)]]

-----------------------------------------------------------------------------
(* simple_face_recognition: encode_face, compare_faces_simple *)

\* the three detectMultiScale parameterizations of encode_face, in order
SimpleAttempts ==
    << [scaleFactor |-> 110, minNeighbors |-> 3, minSize |-> 30],
       [scaleFactor |-> 130, minNeighbors |-> 5, minSize |-> 20],
       [scaleFactor |-> 105, minNeighbors |-> 2, minSize |-> 15] >>

\* pixel values of the resized face region, flattened
Pixels == [1..RoiLen -> Vals]

\* stored encodings handed to compare_faces_simple, in units of 1/Scale
SimpleVals == {0, 600, 1000}
SimpleKnowns ==
    UNION {[1..n -> SimpleVals] : n \in 0..RoiLen}
       \cup {[i \in 1..(RoiLen + 1) |-> v] : v \in SimpleVals}
SimpleTolerances == {600}

\* encoding / norm when norm > 0, the encoding itself otherwise
Normalize(pixels) ==
    IF NormSq(pixels) > 0
    THEN [i \in 1..Len(pixels) |->
             ISqrt((pixels[i] * pixels[i] * Scale * Scale) \div NormSq(pixels))]
    ELSE [i \in 1..Len(pixels) |-> pixels[i] * Scale]

\* numpy broadcasting of two one-dimensional arrays
Broadcastable(a, b) == Len(a) = Len(b) \/ Len(a) = 1 \/ Len(b) = 1

BroadcastDiff(a, b) ==
    LET n == Max(Len(a), Len(b))
    IN [i \in 1..n |-> (IF Len(a) = 1 THEN a[1] ELSE a[i]) - (IF Len(b) = 1 THEN b[1] ELSE b[i])]

\* np.linalg.norm(known_encoding_array - unknown_encoding_array)
SimpleDistance(known, unknown) == Num(ISqrt(NormSq(BroadcastDiff(known, unknown))))

SimpleError(message) == [success |-> FALSE, error |-> message]

SimpleCompareResult(known, unknown, tol) ==
    LET distance == SimpleDistance(known, unknown)
    IN [success |-> TRUE, distance |-> distance, is_match |-> FLe(distance, Num(tol)),
        tolerance |-> tol]

-----------------------------------------------------------------------------
(* State machine *)

\* a call starts with fresh locals
ResetLocals ==
    /\ calls' = <<>>
    /\ frontal_faces' = <<>>
    /\ profile_faces' = <<>>
    /\ all_faces' = <<>>
    /\ largest_face' = <<>>
    /\ crop' = <<>>
    /\ capture_result' = NoResult
    /\ compared' = <<>>
    /\ faces' = <<>>
    /\ face' = <<>>
    /\ encoding' = <<>>
    /\ processed' = <<>>
    /\ encodings_array' = <<>>
    /\ successful_encodings' = 0
    /\ gray_image' = NoImage
    /\ lbp_codes' = <<>>
    /\ lbp_features' = <<>>
    /\ hog_features' = <<>>
    /\ gabor_features' = <<>>
    /\ pca_features' = <<>>
    /\ result' = NoResult

Init ==
    /\ tolerance = 0
    /\ op = "none"
    /\ pc = "idle"
    /\ known_encoding = <<>>
    /\ simple_tolerance = 0
    /\ calls = <<>>
    /\ frontal_faces = <<>>
    /\ profile_faces = <<>>
    /\ all_faces = <<>>
    /\ largest_face = <<>>
    /\ crop = <<>>
    /\ capture_result = NoResult
    /\ compared = <<>>
    /\ faces = <<>>
    /\ face = <<>>
    /\ encoding = <<>>
    /\ image_count = 0
    /\ processed = <<>>
    /\ encodings_array = <<>>
    /\ successful_encodings = 0
    /\ gray_image = NoImage
    /\ lbp_codes = <<>>
    /\ lbp_features = <<>>
    /\ hog_features = <<>>
    /\ gabor_features = <<>>
    /\ pca_features = <<>>
    /\ result = NoResult
    /\ previous = <<>>

\* main of face_recognition_service: operation 'encode'
CallEncode ==
    /\ pc = "idle"
    /\ \E t \in Tolerances : tolerance' = t
    /\ op' = "encode"
    /\ pc' = "decode"
    /\ known_encoding' = <<>>
    /\ image_count' = 0
    /\ ResetLocals
    /\ UNCHANGED <<simple_tolerance, previous>>

\* main of face_recognition_service: operation 'compare'
CallCompare ==
    /\ pc = "idle"
    /\ \E t \in Tolerances : tolerance' = t
    /\ \E k \in Encodings : known_encoding' = k
    /\ op' = "compare"
    /\ pc' = "decode"
    /\ image_count' = 0
    /\ ResetLocals
    /\ UNCHANGED <<simple_tolerance, previous>>

\* generate_robust_encoding: the image decodes
Decode ==
    /\ pc = "decode"
    /\ pc' = "frontal"
    /\ UNCHANGED <<args, multiVars, extractVars, calls,
                   detectVars, capture_result, compared, simpleVars, result>>

\* generate_robust_encoding: decoding raises, the except branch returns
DecodeError ==
    /\ pc = "decode"
    /\ capture_result' = EncodeFailure("decode")
    /\ pc' = "encoded"
    /\ UNCHANGED <<args, multiVars, extractVars, calls, detectVars, compared, simpleVars, result>>

DetectFrontal ==
    /\ pc = "frontal"
    /\ \E found \in FaceLists(MaxFaces) :
          /\ frontal_faces' = found
          /\ calls' = Append(calls, Call("frontal", DetectScale, DetectNeighbors,
                                         DetectMinSize, found))
    /\ pc' = "profile"
    /\ UNCHANGED <<args, multiVars, extractVars, profile_faces, all_faces, largest_face, crop,
                   capture_result, compared, simpleVars, result>>

DetectProfile ==
    /\ pc = "profile"
    /\ \E found \in FaceLists(MaxFaces) :
          /\ profile_faces' = found
          /\ all_faces' = frontal_faces \o found
          /\ calls' = Append(calls, Call("profile", DetectScale, DetectNeighbors,
                                         DetectMinSize, found))
    /\ pc' = "select"
    /\ UNCHANGED <<args, multiVars, extractVars, frontal_faces, largest_face, crop,
                   capture_result, compared, simpleVars, result>>

\* detect_and_align_face returns (None, None); generate_robust_encoding fails
NoFace ==
    /\ pc = "select"
    /\ Len(all_faces) = 0
    /\ capture_result' = EncodeFailure("No face detected in image")
    /\ pc' = "encoded"
    /\ UNCHANGED <<args, multiVars, extractVars, calls, detectVars, compared, simpleVars, result>>

SelectFace ==
    /\ pc = "select"
    /\ Len(all_faces) # 0
    /\ largest_face' = LargestFace(all_faces)
    /\ crop' = PaddedCrop(LargestFace(all_faces))
    /\ pc' = "extract"
    /\ UNCHANGED <<args, multiVars, extractVars, calls, frontal_faces, profile_faces, all_faces,
                   capture_result, compared, simpleVars, result>>

\* detect_and_align_face returns (aligned_face, (x, y, w, h)); its other
\* locals are gone
Aligned ==
    /\ pc = "extract"
    /\ frontal_faces' = <<>>
    /\ profile_faces' = <<>>
    /\ all_faces' = <<>>
    /\ pc' = "aligned"
    /\ UNCHANGED <<args, multiVars, extractVars, calls,
                   largest_face, crop, capture_result, compared,
                   simpleVars, result>>

\* generate_robust_encoding, from the resize to the return of the success value
Extract ==
    /\ pc = "aligned"
    /\ \E encodings \in Encodings, confidence \in Confidences :
          capture_result' = EncodeSuccess(encodings, Min(MaxConfidence * 100, confidence))
    /\ pc' = "encoded"
    /\ largest_face' = <<>>
    /\ crop' = <<>>
    /\ UNCHANGED <<args, multiVars, extractVars, calls,
                   frontal_faces, profile_faces, all_faces, compared,
                   simpleVars, result>>

\* main: the encode operation prints the result
ReturnEncode ==
    /\ pc = "encoded"
    /\ op = "encode"
    /\ result' = capture_result
    /\ pc' = "done"
    /\ UNCHANGED <<args, multiVars, extractVars, calls,
                   detectVars, capture_result, compared, simpleVars>>

\* compare_faces_with_distance: the capture failed
CompareNoCapture ==
    /\ pc = "encoded"
    /\ op = "compare"
    /\ ~capture_result.success
    /\ result' = CompareFailure(capture_result.details)
    /\ pc' = "done"
    /\ UNCHANGED <<args, multiVars, extractVars, calls,
                   detectVars, capture_result, compared, simpleVars>>

\* compare_faces_with_distance: from the truncation to the return
Compare ==
    /\ pc = "encoded"
    /\ op = "compare"
    /\ capture_result.success
    /\ LET min_length == Min(Len(known_encoding), Len(capture_result.encoding))
           known == Truncate(known_encoding, min_length)
           captured == Truncate(capture_result.encoding, min_length)
       IN /\ compared' = <<known, captured>>
          /\ result' = CompareResult(known, captured, tolerance, capture_result.confidence)
    /\ pc' = "done"
    /\ UNCHANGED <<args, multiVars, extractVars, calls, detectVars, capture_result, simpleVars>>

\* main of face_recognition_service: operation 'multi_encode'
CallMultiEncode ==
    /\ pc = "idle"
    /\ \E t \in Tolerances : tolerance' = t
    /\ \E n \in 0..MaxImages : image_count' = n
    /\ op' = "multi_encode"
    /\ pc' = "m_loop"
    /\ known_encoding' = <<>>
    /\ ResetLocals
    /\ UNCHANGED <<simple_tolerance, previous>>

\* generate_multiple_encodings: one iteration of the loop over the images,
\* the call of generate_robust_encoding with its detector invocations included
Sample ==
    /\ pc = "m_loop"
    /\ Len(processed) < image_count
    /\ \E run \in EncodeRuns :
          /\ calls' = calls \o run.calls
          /\ processed' = Append(processed, [success |-> run.result.success,
                                              encoding |-> run.result.encoding])
          /\ IF run.result.success
             THEN /\ encodings_array' = Append(encodings_array, run.result.encoding)
                  /\ successful_encodings' = successful_encodings + 1
             ELSE UNCHANGED <<encodings_array, successful_encodings>>
    /\ UNCHANGED <<args, extractVars, pc,
                   detectVars, capture_result, compared, simpleVars, result>>

\* generate_multiple_encodings: after the loop
Aggregate ==
    /\ pc = "m_loop"
    /\ Len(processed) = image_count
    /\ result' = IF successful_encodings = 0
                 THEN MultiFailure
                 ELSE MultiSuccess(encodings_array, image_count, successful_encodings)
    /\ pc' = "done"
    /\ UNCHANGED <<args, multiVars, extractVars, calls,
                   detectVars, capture_result, compared, simpleVars>>

\* main of simple_face_recognition: operation "encode"
CallSimpleEncode ==
    /\ pc = "idle"
    /\ op' = "simple_encode"
    /\ pc' = "s_decode"
    /\ known_encoding' = <<>>
    /\ simple_tolerance' = 0
    /\ tolerance' = 0
    /\ image_count' = 0
    /\ ResetLocals
    /\ UNCHANGED previous

\* main of simple_face_recognition: operation "compare"
CallSimpleCompare ==
    /\ pc = "idle"
    /\ \E k \in SimpleKnowns, t \in SimpleTolerances :
          /\ known_encoding' = k
          /\ simple_tolerance' = t
    /\ op' = "simple_compare"
    /\ pc' = "s_decode"
    /\ tolerance' = 0
    /\ image_count' = 0
    /\ ResetLocals
    /\ UNCHANGED previous

\* encode_face: process_image_from_base64 returns the image
SimpleDecode ==
    /\ pc = "s_decode"
    /\ pc' = "attempt1"
    /\ UNCHANGED <<args, multiVars, extractVars, calls,
                   detectVars, capture_result, compared, simpleVars, result>>

\* encode_face: process_image_from_base64 raises
SimpleDecodeError ==
    /\ pc = "s_decode"
    /\ result' = SimpleError("Failed to process image")
    /\ pc' = "done"
    /\ UNCHANGED <<args, multiVars, extractVars, calls,
                   detectVars, capture_result, compared, simpleVars>>

Attempt_eager(n) ==
    /\ pc = IF n = 1 THEN "attempt1" ELSE IF n = 2 THEN "attempt2" ELSE "attempt3"
    /\ \E found \in FaceLists(MaxSimpleFaces) :
          /\ faces' = found
          /\ calls' = Append(calls, Call("frontal", SimpleAttempts[n].scaleFactor,
                                         SimpleAttempts[n].minNeighbors,
                                         SimpleAttempts[n].minSize, found))
    /\ pc' = IF n = 1 THEN "attempt2" ELSE IF n = 2 THEN "attempt3" ELSE "s_select"
    /\ UNCHANGED <<args, multiVars, extractVars, detectVars, capture_result, compared,
                   face, encoding, result>>

\* encode_face: detection attempt n; attempts 2 and 3 run when faces is empty
Attempt(n) ==
    /\ pc = IF n = 1 THEN "attempt1" ELSE IF n = 2 THEN "attempt2" ELSE "attempt3"
    /\ IF n = 1 \/ Len(faces) = 0
       THEN \E found \in FaceLists(MaxSimpleFaces) :
               /\ faces' = found
               /\ calls' = Append(calls, Call("frontal", SimpleAttempts[n].scaleFactor,
                                              SimpleAttempts[n].minNeighbors,
                                              SimpleAttempts[n].minSize, found))
       ELSE UNCHANGED <<faces, calls>>
    /\ pc' = IF n = 1 THEN "attempt2" ELSE IF n = 2 THEN "attempt3" ELSE "s_select"
    /\ UNCHANGED <<args, multiVars, extractVars, detectVars,
                   capture_result, compared, face, encoding, result>>

\* encode_face: raise "No face detected in image"
SimpleNoFace ==
    /\ pc = "s_select"
    /\ Len(faces) = 0
    /\ result' = SimpleError("No face detected in image")
    /\ pc' = "done"
    /\ UNCHANGED <<args, multiVars, extractVars, calls,
                   detectVars, capture_result, compared, simpleVars>>

\* encode_face: select the largest face
SimpleSelectFace ==
    /\ pc = "s_select"
    /\ Len(faces) # 0
    /\ face' = LargestFace(faces)
    /\ pc' = "s_crop"
    /\ UNCHANGED <<args, multiVars, extractVars, calls, detectVars,
                   capture_result, compared, faces, encoding, result>>

\* encode_face: crop, resize, flatten, normalize
SimpleEncodeFace ==
    /\ pc = "s_crop"
    /\ \E pixels \in Pixels : encoding' = Normalize(pixels)
    /\ faces' = <<>>
    /\ face' = <<>>
    /\ pc' = "s_encoded"
    /\ UNCHANGED <<args, multiVars, extractVars, calls,
                   detectVars, capture_result, compared, result>>

SimpleReturnEncode ==
    /\ pc = "s_encoded"
    /\ op = "simple_encode"
    /\ result' = [success |-> TRUE, encoding |-> encoding]
    /\ pc' = "done"
    /\ UNCHANGED <<args, multiVars, extractVars, calls,
                   detectVars, capture_result, compared, simpleVars>>

\* compare_faces_simple after encode_face returned
SimpleCompare ==
    /\ pc = "s_encoded"
    /\ op = "simple_compare"
    /\ result' = IF Broadcastable(known_encoding, encoding)
                 THEN SimpleCompareResult(known_encoding, encoding, simple_tolerance)
                 ELSE SimpleError("Failed to compare faces")
    /\ pc' = "done"
    /\ UNCHANGED <<args, multiVars, extractVars, calls,
                   detectVars, capture_result, compared, simpleVars>>

Return ==
    /\ pc = "done"
    /\ pc' = "idle"
    /\ op' = "none"
    /\ known_encoding' = <<>>
    /\ simple_tolerance' = 0
    /\ tolerance' = 0
    /\ image_count' = 0
    /\ ResetLocals
    /\ UNCHANGED previous

Next ==
    \/ CallEncode
    \/ CallCompare
    \/ Decode
    \/ DecodeError
    \/ DetectFrontal
    \/ DetectProfile
    \/ NoFace
    \/ SelectFace
    \/ Aligned
    \/ Extract
    \/ ReturnEncode
    \/ CompareNoCapture
    \/ Compare
    \/ CallMultiEncode
    \/ Sample
    \/ Aggregate
    \/ CallSimpleEncode
    \/ CallSimpleCompare
    \/ SimpleDecode
    \/ SimpleDecodeError
    \/ \E n \in 1..3 : Attempt(n)
    \/ SimpleNoFace
    \/ SimpleSelectFace
    \/ SimpleEncodeFace
    \/ SimpleReturnEncode
    \/ SimpleCompare
    \/ Return

Spec == Init /\ [][Next]_vars

(* The matcher alone: the lines of compare_faces_with_distance after a        *)
(* successful capture, applied to one pair of inputs after another            *)

\* the log of a detection that found one frontal face
OneFrontalFace ==
    << [cascade |-> "frontal", scaleFactor |-> DetectScale, minNeighbors |-> DetectNeighbors,
        minSize |-> DetectMinSize, found |-> 1],
       [cascade |-> "profile", scaleFactor |-> DetectScale, minNeighbors |-> DetectNeighbors,
        minSize |-> DetectMinSize, found |-> 0] >>

InitMatcher ==
    /\ tolerance \in Tolerances
    /\ op = "compare"
    /\ pc = "encoded"
    /\ known_encoding \in Encodings
    /\ simple_tolerance = 0
    /\ calls = OneFrontalFace
    /\ frontal_faces = <<>>
    /\ profile_faces = <<>>
    /\ all_faces = <<>>
    /\ largest_face = <<>>
    /\ crop = <<>>
    /\ capture_result \in {EncodeSuccess(e, c) : e \in Encodings, c \in Confidences}
    /\ compared = <<>>
    /\ faces = <<>>
    /\ face = <<>>
    /\ encoding = <<>>
    /\ image_count = 0
    /\ processed = <<>>
    /\ encodings_array = <<>>
    /\ successful_encodings = 0
    /\ gray_image = NoImage
    /\ lbp_codes = <<>>
    /\ lbp_features = <<>>
    /\ hog_features = <<>>
    /\ gabor_features = <<>>
    /\ pca_features = <<>>
    /\ result = NoResult
    /\ previous = <<>>

\* the comparison is over; its distance and confidence are kept for the next
Remember ==
    /\ pc = "done"
    /\ previous' = <<result.distance, result.confidence>>
    /\ known_encoding' = <<>>
    /\ capture_result' = NoResult
    /\ compared' = <<>>
    /\ result' = NoResult
    /\ pc' = "next"
    /\ UNCHANGED <<tolerance, op, simple_tolerance, image_count, calls, detectVars,
                   simpleVars, multiVars, extractVars>>

\* the next comparison of the same service reaches the matcher
NextComparison ==
    /\ pc = "next"
    /\ \E k \in Encodings : known_encoding' = k
    /\ \E e \in Encodings, c \in Confidences : capture_result' = EncodeSuccess(e, c)
    /\ pc' = "encoded"
    /\ UNCHANGED <<tolerance, op, simple_tolerance, image_count, calls, detectVars,
                   compared, simpleVars, multiVars, extractVars, result, previous>>

NextMatcher ==
    \/ Compare
    \/ Remember
    \/ NextComparison

SpecMatcher == InitMatcher /\ [][NextMatcher]_vars

(* The descriptor extractors applied to one grayscale image: op "extract" is  *)
(* lines 135 to 179 of generate_robust_encoding, the four extractors and the  *)
(* assembly of the encoding, on a uniform image; the other two are calls of   *)
(* extract_lbp_features and of extract_pca_features alone, on any image       *)

InitExtract ==
    /\ tolerance = 0
    /\ \/ op = "extract" /\ pc = "x_lbp" /\ gray_image \in UniformImages
       \/ op = "extract_lbp_features" /\ pc = "x_lbp" /\ gray_image \in GrayImages
       \/ op = "extract_pca_features" /\ pc = "x_pca" /\ gray_image \in GrayImages
    /\ known_encoding = <<>>
    /\ simple_tolerance = 0
    /\ calls = <<>>
    /\ frontal_faces = <<>>
    /\ profile_faces = <<>>
    /\ all_faces = <<>>
    /\ largest_face = <<>>
    /\ crop = <<>>
    /\ capture_result = NoResult
    /\ compared = <<>>
    /\ faces = <<>>
    /\ face = <<>>
    /\ encoding = <<>>
    /\ image_count = 0
    /\ processed = <<>>
    /\ encodings_array = <<>>
    /\ successful_encodings = 0
    /\ lbp_codes = <<>>
    /\ lbp_features = <<>>
    /\ hog_features = <<>>
    /\ gabor_features = <<>>
    /\ pca_features = <<>>
    /\ result = NoResult
    /\ previous = <<>>

keptByExtract == <<args, calls, detectVars, compared, simpleVars, multiVars, gray_image, result>>

\* extract_lbp_features: the loops over the interior pixels
LbpLoop ==
    /\ pc = "x_lbp"
    /\ lbp_codes' = LbpCodes(gray_image)
    /\ pc' = "x_hist"
    /\ UNCHANGED <<keptByExtract, capture_result, lbp_features, hog_features,
                   gabor_features, pca_features>>

\* extract_lbp_features: the histogram of the codes is returned
LbpHistogram ==
    /\ pc = "x_hist"
    /\ lbp_features' = Histogram(lbp_codes, LbpBins)
    /\ lbp_codes' = <<>>
    /\ pc' = IF op = "extract" THEN "x_hog" ELSE "x_done"
    /\ UNCHANGED <<keptByExtract, capture_result, hog_features, gabor_features, pca_features>>

ExtractHog ==
    /\ pc = "x_hog"
    /\ hog_features' = ExtractHogFeatures(gray_image)
    /\ pc' = "x_gabor"
    /\ UNCHANGED <<keptByExtract, capture_result, lbp_codes, lbp_features, gabor_features,
                   pca_features>>

ExtractGabor ==
    /\ pc = "x_gabor"
    /\ gabor_features' = ExtractGaborFeatures(gray_image)
    /\ pc' = "x_pca"
    /\ UNCHANGED <<keptByExtract, capture_result, lbp_codes, lbp_features, hog_features,
                   pca_features>>

ExtractPca ==
    /\ pc = "x_pca"
    /\ pca_features' = ExtractPcaFeatures(gray_image)
    /\ pc' = IF op = "extract" THEN "x_build" ELSE "x_done"
    /\ UNCHANGED <<keptByExtract, capture_result, lbp_codes, lbp_features, hog_features,
                   gabor_features>>

\* generate_robust_encoding, lines 151 to 179: the face is 128 x 128 there
BuildEncoding ==
    /\ pc = "x_build"
    /\ gray_image.height = StandardSize
    /\ gray_image.width = StandardSize
    /\ \E confidence \in Confidences :
          capture_result' =
             EncodeSuccess(lbp_features \o hog_features \o gabor_features \o pca_features,
                           Min(MaxConfidence * 100, confidence))
    /\ pc' = "encoded"
    /\ UNCHANGED <<keptByExtract, extractVars>>

NextExtract ==
    \/ LbpLoop
    \/ LbpHistogram
    \/ ExtractHog
    \/ ExtractGabor
    \/ ExtractPca
    \/ BuildEncoding

SpecExtract == InitExtract /\ [][NextExtract]_vars

-----------------------------------------------------------------------------
(* Properties *)

\* a comparison of compare_faces_with_distance that reached the matcher has returned
Matched == pc = "done" /\ op = "compare" /\ capture_result.success

\* a comparison of compare_faces_simple has returned a result
SimpleMatched == pc = "done" /\ op = "simple_compare" /\ result.success

\* n is the floor of the square root of num / den
IsFloorRoot(n, num, den) == n >= 0 /\ n * n * den <= num /\ num < (n + 1) * (n + 1) * den

\* n is the floor of num / den
IsFloorQuotient(n, num, den) == n * den <= num /\ num < (n + 1) * den

\* the three returned components are those of the two compared arrays a and b
ComponentsOf(details, a, b) ==
    LET L == Len(a)
        sumsq == Sum([i \in 1..L |-> (a[i] - b[i]) * (a[i] - b[i])])
        sumabs == Sum([i \in 1..L |-> Abs(a[i] - b[i])])
        dot == Sum([i \in 1..L |-> a[i] * b[i]])
        na == Sum([i \in 1..L |-> a[i] * a[i]])
        nb == Sum([i \in 1..L |-> b[i] * b[i]])
    IN /\ ~details.euclidean.nan
       /\ IsFloorRoot(details.euclidean.v, sumsq * Scale * Scale, L)
       /\ ~details.manhattan.nan
       /\ IsFloorQuotient(details.manhattan.v, sumabs * Scale, L)
       /\ ~details.cosine.nan
       /\ IsFloorRoot(Abs(Scale - details.cosine.v), dot * dot * Scale * Scale, na * nb)
       /\ (details.cosine.v <= Scale <=> dot >= 0)

\* C1: compare_faces_with_distance returns match = true exactly when the
\* combined distance 0.4*euclidean/sqrt(L) + 0.4*cosine + 0.2*manhattan/L is a
\* number less than or equal to tolerance_used, the boundary included;
\* compare_faces_simple returns is_match = true exactly when distance <= tolerance.
MatchIffWithinTolerance ==
    /\ Matched =>
          /\ result.match <=>
                (~result.distance.nan /\ result.distance.v <= result.details.tolerance_used)
          /\ ~result.distance.nan =>
                /\ ComponentsOf(result.details, compared[1], compared[2])
                /\ result.distance.v = 4 * result.details.euclidean.v
                                       + 4 * result.details.cosine.v
                                       + 2 * result.details.manhattan.v
    /\ SimpleMatched =>
          (result.is_match <=> result.distance.v <= result.tolerance)

\* C1 witness: a comparison whose combined distance equals the tolerance used
MatchAtBoundary ==
    /\ Matched
    /\ ~result.distance.nan
    /\ result.distance.v = result.details.tolerance_used
    /\ result.match

\* C2: the tolerance used is 1.1*T when the capture confidence is above 80,
\* 0.9*T when it is below 60, and T for every confidence in [60, 80].
AdaptiveToleranceBands ==
    Matched =>
       LET c == capture_result.confidence.v
           used == result.details.tolerance_used
       IN /\ c > 8000 => used * 10 = tolerance * 11
          /\ c < 6000 => used * 10 = tolerance * 9
          /\ (6000 <= c /\ c <= 8000) => used = tolerance

\* C2 witness: a comparison at capture confidence exactly 80 decided with T itself
ToleranceAtEighty ==
    /\ Matched
    /\ capture_result.confidence.v = 8000
    /\ result.details.tolerance_used = tolerance


\* a comparison of compare_faces_simple got an encoding of the probe
SimpleReached == pc = "done" /\ op = "simple_compare" /\ Len(encoding) > 0

\* C3 as stated: signatures of different lengths are never compared; the
\* comparison returns a failure (LengthMismatch) instead of a decision.
LengthMismatchFails ==
    /\ (Matched /\ Len(known_encoding) # Len(capture_result.encoding)) =>
          ("error" \in DOMAIN result.details /\ ~result.match)
    /\ (SimpleReached /\ Len(known_encoding) # Len(encoding)) => ~result.success

\* C4 as stated: with a zero-norm stored or probe signature the cosine
\* component is 1, the combined distance is a number >= 0.4 and the confidence
\* is the clamp of (1 - distance) * 100.
ZeroNormCosineIsOne ==
    (Matched /\ Len(compared[1]) > 0 /\ (NormSq(compared[1]) = 0 \/ NormSq(compared[2]) = 0)) =>
       /\ ~result.details.cosine.nan
       /\ result.details.cosine.v = Scale
       /\ ~result.distance.nan
       /\ result.distance.v >= 4 * Scale
       /\ ~result.confidence.nan
       /\ result.confidence.v = Max(0, Min(10 * Scale, 10 * Scale - result.distance.v))

\* C5: comparing the encoding of an image with that image gives euclidean,
\* cosine and manhattan components 0, combined distance 0 and match = true
\* under each of the tolerances T, 0.9 T and 1.1 T, when the encoding has
\* non-zero norm.
SelfComparisonMatches ==
    (Matched /\ known_encoding = capture_result.encoding
             /\ \E i \in 1..Len(known_encoding) : known_encoding[i] # 0) =>
       /\ result.details.euclidean = [nan |-> FALSE, v |-> 0]
       /\ result.details.cosine = [nan |-> FALSE, v |-> 0]
       /\ result.details.manhattan = [nan |-> FALSE, v |-> 0]
       /\ result.distance = [nan |-> FALSE, v |-> 0]
       /\ result.match

\* C5 witness: a self comparison decided under the strict tolerance 0.9 T
SelfComparisonStrict ==
    /\ Matched
    /\ known_encoding = capture_result.encoding
    /\ \E i \in 1..Len(known_encoding) : known_encoding[i] # 0
    /\ Len(known_encoding) = MaxLen
    /\ capture_result.confidence.v < 6000
    /\ result.match

\* C6: the confidence percentage is within [0, 100], is the clamp of
\* (1 - distance / 1.0) * 100 whenever the distance is a number, and of two
\* comparisons the one with the smaller distance has the larger or equal
\* confidence.
ConfidenceClampedMonotone ==
    Matched =>
       /\ ~result.confidence.nan
       /\ result.confidence.v >= 0
       /\ result.confidence.v <= 10000
       /\ ~result.distance.nan =>
             result.confidence.v = (IF result.distance.v >= 10000 THEN 0
                                    ELSE IF result.distance.v <= 0 THEN 10000
                                    ELSE 10000 - result.distance.v)
       /\ (previous # <<>> /\ ~result.distance.nan /\ ~previous[1].nan) =>
             /\ previous[1].v <= result.distance.v => previous[2].v >= result.confidence.v
             /\ result.distance.v <= previous[1].v => result.confidence.v >= previous[2].v

\* C6 witness: two comparisons in a row, the second farther and less confident,
\* and a third state of the kind where the clamp at 0 acts
ConfidenceDropped ==
    /\ Matched
    /\ previous # <<>>
    /\ ~previous[1].nan
    /\ ~result.distance.nan
    /\ previous[1].v < result.distance.v
    /\ result.distance.v > 10000
    /\ previous[2].v > result.confidence.v
    /\ result.confidence.v = 0

\* r is the first rectangle of maximum width * height in the list l
IsFirstLargest(r, l) ==
    \E i \in 1..Len(l) :
       /\ l[i] = r
       /\ \A j \in 1..Len(l) : l[j][3] * l[j][4] <= r[3] * r[4]
       /\ \A j \in 1..(i - 1) : l[j][3] * l[j][4] < r[3] * r[4]

\* C7: the selected rectangle has the maximum width * height among the
\* candidates (frontal candidates followed by profile candidates in
\* detect_and_align_face, the detector's list in encode_face), and of several
\* candidates of maximum area the first in list order is selected.
LargestFirstSelected ==
    /\ pc = "extract" =>
          /\ all_faces = frontal_faces \o profile_faces
          /\ IsFirstLargest(largest_face, all_faces)
    /\ pc = "s_crop" => IsFirstLargest(face, faces)

\* C7 witness: a frontal and a different profile candidate of the same area
TieFrontalProfile ==
    /\ pc = "extract"
    /\ Len(frontal_faces) = 1
    /\ Len(profile_faces) = 1
    /\ frontal_faces[1] # profile_faces[1]
    /\ frontal_faces[1][3] * frontal_faces[1][4] = profile_faces[1][3] * profile_faces[1][4]
    /\ largest_face = frontal_faces[1]

\* C8: the padded crop lies inside the image and contains the detected rectangle.
CropInsideImage ==
    pc = "extract" =>
       /\ crop[1] >= 0
       /\ crop[2] >= 0
       /\ crop[1] + crop[3] <= ImageW
       /\ crop[2] + crop[4] <= ImageH
       /\ crop[1] <= largest_face[1]
       /\ crop[2] <= largest_face[2]
       /\ crop[1] + crop[3] >= largest_face[1] + largest_face[3]
       /\ crop[2] + crop[4] >= largest_face[2] + largest_face[4]

\* C8 witness: a crop cut at the top edge and at the right edge of the image
CropClamped ==
    /\ pc = "extract"
    /\ crop[2] = 0
    /\ largest_face[2] > 0
    /\ crop[1] + crop[3] = ImageW
    /\ crop[1] > 0
    /\ largest_face[1] + largest_face[3] + 20 > ImageW

\* C9 as stated: the crop is the detected rectangle padded by
\* p = max(20, min(w, h) div 4) on each side and clamped to the image, so it
\* never reaches more than p beyond the rectangle.
SymmetricPadding ==
    pc = "extract" =>
       LET x == largest_face[1]
           y == largest_face[2]
           w == largest_face[3]
           h == largest_face[4]
           m == IF w < h THEN w ELSE h
           p == IF m \div 4 > 20 THEN m \div 4 ELSE 20
       IN /\ crop[1] = (IF x - p > 0 THEN x - p ELSE 0)
          /\ crop[2] = (IF y - p > 0 THEN y - p ELSE 0)
          /\ crop[1] + crop[3] = (IF x + w + p < ImageW THEN x + w + p ELSE ImageW)
          /\ crop[2] + crop[4] = (IF y + h + p < ImageH THEN y + h + p ELSE ImageH)

\* attempt b is more permissive than attempt a
MorePermissive(a, b) ==
    /\ b.minNeighbors <= a.minNeighbors
    /\ b.minSize <= a.minSize
    /\ (b.minNeighbors < a.minNeighbors \/ b.minSize < a.minSize \/ b.scaleFactor < a.scaleFactor)

\* C10 as stated: generate_robust_encoding returns 'No face detected in image'
\* only after at least three progressively more permissive detection
\* attempts, all without candidates.
NoFaceAfterThreeAttempts ==
    (pc = "encoded" /\ ~capture_result.success
        /\ capture_result.details.error = "No face detected in image") =>
       /\ Len(calls) >= 3
       /\ \A i \in 1..Len(calls) : calls[i].found = 0
       /\ \A i \in 1..(Len(calls) - 1) : MorePermissive(calls[i], calls[i + 1])

\* an operation of simple_face_recognition is running encode_face
InEncodeFace == op \in {"simple_encode", "simple_compare"}

\* C11 as stated: the detector parameter tuples encode_face tries in order are
\* increasingly permissive: from each attempt to the next neither the
\* minimum-neighbor count nor the minimum size increases.
AttemptsNeverStricter ==
    InEncodeFace =>
       \A i \in 1..(Len(calls) - 1) :
          /\ calls[i + 1].minNeighbors <= calls[i].minNeighbors
          /\ calls[i + 1].minSize <= calls[i].minSize

\* generate_multiple_encodings has returned
MultiDone == pc = "done" /\ op = "multi_encode"

\* the positions of the input list whose extraction succeeded
Succeeded == {k \in 1..Len(processed) : processed[k].success}

\* C12: generate_multiple_encodings fails (success = false, average_encoding
\* = None) exactly when every input fails extraction, the empty list included;
\* otherwise it succeeds with successful_encodings = number of inputs whose
\* extraction succeeded, total_attempts = length of the list, and the tag
\* 'excellent' for 3 or more successes, 'good' for 2, 'acceptable' for 1.
AggregationOutcome ==
    MultiDone =>
       LET n == Cardinality(Succeeded)
       IN /\ Len(processed) = image_count
          /\ ~result.success <=> n = 0
          /\ ~result.success => result.average_encoding = <<>>
          /\ result.success =>
                /\ result.details.successful_encodings = n
                /\ result.details.total_attempts = image_count
                /\ n >= 3 => result.details.encoding_quality = "excellent"
                /\ n = 2 => result.details.encoding_quality = "good"
                /\ n = 1 => result.details.encoding_quality = "acceptable"

\* C12 witness: four images, one of which fails extraction: three successes,
\* tagged 'excellent'
ThreeOfFourExcellent ==
    /\ MultiDone
    /\ image_count = 4
    /\ Cardinality(Succeeded) = 3
    /\ result.success
    /\ result.details.successful_encodings = 3
    /\ result.details.encoding_quality = "excellent"

RECURSIVE SumOver(_, _)
\* the sum of f over the positions in S
SumOver(f, S) ==
    IF S = {} THEN 0
    ELSE LET x == CHOOSE y \in S : TRUE
         IN f[x] + SumOver(f, S \ {x})

\* C13: with at least one success the average encoding has the length of each
\* successful encoding and its i-th element is the arithmetic mean of the i-th
\* elements of exactly the successful encodings; so k copies of one encoding
\* give that encoding, and exchanging any two inputs leaves it unchanged.
AverageIsMeanOfSuccesses ==
    (MultiDone /\ result.success) =>
       LET avg == result.average_encoding
           n == Cardinality(Succeeded)
       IN /\ \A k \in Succeeded : Len(processed[k].encoding) = Len(avg)
          /\ \A i \in 1..Len(avg) :
                IsFloorQuotient(avg[i],
                    Scale * SumOver([k \in 1..Len(processed) |->
                                        IF processed[k].success
                                        THEN processed[k].encoding[i] ELSE 0], Succeeded), n)
          /\ (\A j, k \in Succeeded : processed[j].encoding = processed[k].encoding) =>
                \A k \in Succeeded :
                   avg = [i \in 1..Len(avg) |-> Scale * processed[k].encoding[i]]
          /\ \A a, b \in 1..Len(encodings_array) :
                MeanEncoding([k \in 1..Len(encodings_array) |->
                                 encodings_array[IF k = a THEN b ELSE IF k = b THEN a ELSE k]])
                   = avg

\* C13 witness: a failed sample among several successes whose mean is not a
\* whole number
MeanSkipsFailure ==
    /\ MultiDone
    /\ result.success
    /\ Cardinality(Succeeded) = 3
    /\ \E k \in 1..Len(processed) : ~processed[k].success
    /\ result.average_encoding[1] % Scale # 0

\* compare_faces_with_distance has returned after a failed capture
CaptureFailed == pc = "done" /\ op = "compare" /\ ~capture_result.success

\* C14: when encoding the probe image fails (no face, or an error caught by
\* generate_robust_encoding), compare_faces_with_distance returns match =
\* false, distance = 1.0, confidence = 0.0 and the details of the failed
\* encoding; no array is compared and no tolerance is decided.
CaptureFailureReturned ==
    CaptureFailed =>
       /\ ~result.match
       /\ result.distance = [nan |-> FALSE, v |-> 10000]
       /\ result.confidence = [nan |-> FALSE, v |-> 0]
       /\ result.details = capture_result.details
       /\ "error" \in DOMAIN result.details
       /\ "tolerance_used" \notin DOMAIN result.details
       /\ compared = <<>>

\* C14 witness: a stored encoding compared with an image without a face
NoFaceComparison ==
    /\ CaptureFailed
    /\ Len(known_encoding) = MaxLen
    /\ Len(calls) = 2
    /\ result.details.error = "No face detected in image"

\* extract_hog_features has returned
HogDone == op = "extract" /\ pc \notin {"x_lbp", "x_hist", "x_hog"}

\* C15 as stated: for the 128 x 128 sample extract_hog_features emits
\* 9 * floor(128/8)^2 = 2304 values, one 9-bin histogram for each of the
\* 16 x 16 cells of 8 x 8 pixels in row-major order, the last row and the
\* last column of cells included.
HogEmits2304 ==
    (HogDone /\ gray_image.height = 128 /\ gray_image.width = 128) =>
       /\ Len(hog_features) = 9 * (128 \div 8) * (128 \div 8)
       /\ Len(HogCells(gray_image)) = 16 * 16
       /\ \A r \in 0..15, c \in 0..15 :
             HogCells(gray_image)[1 + 16 * r + c] = <<8 * r, 8 * c>>

\* extract_lbp_features has returned
LbpDone == op \in {"extract", "extract_lbp_features"} /\ pc \notin {"x_lbp", "x_hist"}

\* C16 as stated: for a uniform image every interior code falls in bin 0:
\* bin 0 holds (H-2)*(W-2) counts and the other 255 bins are zero.
UniformLbpInFirstBin ==
    (LbpDone /\ gray_image.spot = <<>>) =>
       /\ Len(lbp_features) = 256
       /\ lbp_features[1] = (gray_image.height - 2) * (gray_image.width - 2)
       /\ \A b \in 2..256 : lbp_features[b] = 0

\* C16 amended: for a uniform image every neighbor is >= the center, every
\* interior code is 255: bin 255 holds (H-2)*(W-2) counts and the other 255
\* bins are zero.
UniformLbpInLastBin ==
    (LbpDone /\ gray_image.spot = <<>>) =>
       /\ Len(lbp_features) = 256
       /\ lbp_features[256] = (gray_image.height - 2) * (gray_image.width - 2)
       /\ \A b \in 1..255 : lbp_features[b] = 0

\* C16 witness: the 128 x 128 face of value 128 everywhere, 126 * 126 codes
MidGrayStandardFace ==
    /\ LbpDone
    /\ gray_image = [height |-> 128, width |-> 128, fill |-> 128, spot |-> <<>>]
    /\ lbp_features[256] = 15876

\* C17 as stated: the encoding generate_robust_encoding returns is the
\* concatenation of the texture, gradient, frequency and regional outputs,
\* L2-normalized: of unit norm unless it is the zero vector, which is
\* returned as a success.
EncodingNormalized ==
    (op = "extract" /\ pc = "encoded") =>
       LET e == capture_result.encoding
       IN /\ capture_result.success
          /\ Len(e) = Len(lbp_features) + Len(hog_features)
                         + Len(gabor_features) + Len(pca_features)
          /\ (\E i \in 1..Len(e) : e[i] # 0) =>
                /\ \A i \in 1..Len(e) : e[i] * e[i] <= 1
                /\ Cardinality({i \in 1..Len(e) : e[i] # 0}) = 1

\* C18: the detection attempts of encode_face are ordered and lazy: attempt 2
\* is made only if attempt 1 found nothing, attempt 3 only if attempts 1 and 2
\* found nothing, the candidates of the first attempt that found any are the
\* ones selected from, and 'No face detected' is raised only after all three
\* attempts found nothing.
AttemptsLazyInOrder ==
    InEncodeFace =>
       /\ Len(calls) <= 3
       /\ \A i \in 1..Len(calls) :
             /\ calls[i].scaleFactor = SimpleAttempts[i].scaleFactor
             /\ calls[i].minNeighbors = SimpleAttempts[i].minNeighbors
             /\ calls[i].minSize = SimpleAttempts[i].minSize
       /\ \A i \in 1..(Len(calls) - 1) : calls[i].found = 0
       /\ pc = "attempt2" => Len(calls) = 1
       /\ pc = "attempt3" => (Len(calls) = 1 \/ (Len(calls) = 2 /\ calls[1].found = 0))
       /\ pc = "s_select" =>
             /\ Len(calls) >= 1
             /\ Len(faces) = calls[Len(calls)].found
             /\ Len(calls) < 3 => calls[Len(calls)].found > 0
       /\ (pc = "done" /\ ~result.success /\ result.error = "No face detected in image") =>
             /\ Len(calls) = 3
             /\ \A i \in 1..3 : calls[i].found = 0

\* C18 witness: the first two attempts find nothing, the third finds the
\* candidates the face is selected from
ThirdAttemptFinds ==
    /\ InEncodeFace
    /\ pc = "s_crop"
    /\ Len(calls) = 3
    /\ calls[1].found = 0
    /\ calls[2].found = 0
    /\ calls[3].found = MaxSimpleFaces
    /\ Len(faces) = MaxSimpleFaces
    /\ IsFirstLargest(face, faces)

====
